---- MODULE Spec2Model ----
(***************************************************************************)
(* keras_cv/utils/preprocessing.py: transform_value_range (an affine       *)
(* rescale of pixel values between two value ranges) and transform (a      *)
(* validating wrapper around tf.raw_ops.ImageProjectiveTransformV3).       *)
(*                                                                         *)
(* Numbers.  A Python number passed by the caller is a record              *)
(* [py, n, d] (py = "int" or "float", value n/d).  An element of a float   *)
(* tensor is a record [n, d] with d >= 0 in lowest terms: d > 0 is the     *)
(* finite value n/d, 1/0 is +inf, -1/0 is -inf and 0/0 is NaN.  The four   *)
(* float operations follow IEEE 754 on the special values; on finite       *)
(* values they are exact (rounding is not modelled: every input of the     *)
(* model is a dyadic rational that float32 holds exactly).  The compute    *)
(* dtype is the default, tf.float32.                                       *)
(*                                                                         *)
(* transform is modelled statement by statement, so that the order of its  *)
(* steps can be stated.  A tensor carries the value it has when executed   *)
(* and its static shape, which in deferred execution may know less than    *)
(* the value.  backend.name_scope only names the ops and is left out.      *)
(***************************************************************************)
EXTENDS Integers, Sequences, FiniteSets

VARIABLES
    call,            \* which function this run calls
    pc,              \* position inside the called function
    images,          \* transform_value_range: the input values (flattened)
    original_range,  \* transform_value_range: <<min, max>>
    target_range,    \* transform_value_range: <<min, max>>
    result,          \* transform_value_range: the returned tensor
    restored,        \* the tensor returned by the call with the ranges swapped
    eager,           \* tf.executing_eagerly()
    batch,           \* transform: the images argument (dtype, shape, static shape)
    transforms,      \* transform: the transforms argument
    fill_mode,       \* transform: the fill_mode argument
    interpolation,   \* transform: the interpolation argument
    fill_value,      \* transform: the local fill_value
    output_shape_arg,\* transform: output_shape as the caller passed it
    output_shape,    \* transform: the local output_shape
    op_calls,        \* invocations of ImageProjectiveTransformV3, in order
    ret,             \* transform: the returned tensor
    error,           \* the exception raised, if any
    log              \* the steps of transform executed so far, in order

vars == <<call, pc, images, original_range, target_range, result, restored,
          eager, batch, transforms, fill_mode, interpolation, fill_value,
          output_shape_arg, output_shape, op_calls, ret, error, log>>

tvr_vars == <<images, original_range, target_range, result, restored>>

transform_vars == <<eager, batch, transforms, fill_mode, interpolation,
                    fill_value, output_shape_arg, output_shape, op_calls,
                    ret, error, log>>

(***************************************************************************)
(* Bounds of the model.                                                    *)
(***************************************************************************)
\* the largest number of values in an input of transform_value_range
MaxLen == 2
\* the largest height and width of an image batch and of an output_shape
MaxDim == 2

(***************************************************************************)
(* Float arithmetic.                                                       *)
(***************************************************************************)
Abs(x) == IF x < 0 THEN -x ELSE x

Sign(x) == IF x < 0 THEN -1 ELSE IF x > 0 THEN 1 ELSE 0

RECURSIVE Gcd(_, _)
Gcd(a, b) == IF b = 0 THEN a ELSE Gcd(b, a % b)

\* the float with value n/d, in lowest terms with d >= 0
Float(n, d) ==
    IF d = 0 THEN [n |-> Sign(n), d |-> 0]
    ELSE LET g == Gcd(Abs(n), Abs(d))
         IN  [n |-> (Sign(d) * n) \div g, d |-> Abs(d) \div g]

IsFinite(x) == x.d # 0

IsNaN(x) == x.d = 0 /\ x.n = 0

\* x + y: inf + (-inf) is NaN, NaN propagates
FAdd(x, y) == Float(x.n * y.d + y.n * x.d, x.d * y.d)

\* x - y: inf - inf is NaN, NaN propagates
FSub(x, y) == Float(x.n * y.d - y.n * x.d, x.d * y.d)

\* x * y: inf * 0 is NaN, NaN propagates
FMul(x, y) == Float(x.n * y.n, x.d * y.d)

\* x / y with a guard on y = 0 (the result of tf.math.divide_no_nan)
FDivNoNan(x, y) ==
    IF y.n = 0 /\ y.d # 0 THEN Float(0, 1)
    ELSE FMul(x, IF y.n < 0 THEN [n |-> -y.d, d |-> -y.n]
                 ELSE [n |-> y.d, d |-> y.n])

\* x / y: finite / 0 is an infinity of the sign of x, 0 / 0 and inf / inf
\* are NaN, finite / inf is 0 (a zero divisor here is always the +0 that
\* v - v yields)
FDiv(x, y) ==
    FMul(x, IF y.n < 0 THEN [n |-> -y.d, d |-> -y.n]
            ELSE [n |-> y.d, d |-> y.n])

\* tf.cast(v, dtype) for a float dtype: the Python number or tensor element
\* v as an element of a float tensor
Cast(v) == Float(v.n, v.d)

(***************************************************************************)
(* transform_value_range                                                   *)
(***************************************************************************)
\* _unwrap_value_range: the two bounds, each cast to the compute dtype
unwrap_value_range(value_range) ==
    [min_value |-> Cast(value_range[1]), max_value |-> Cast(value_range[2])]

\* the rescale scaling by target_max instead of target_max - target_min
rescale_scale_max(v, original_range_, target_range_) ==
    LET o == unwrap_value_range(original_range_)
        t == unwrap_value_range(target_range_)
        normalized == FDiv(FSub(Cast(v), o.min_value),
                           FSub(o.max_value, o.min_value))
    IN  FAdd(FMul(normalized, t.max_value), t.min_value)

\* the rescale normalizing without subtracting original_min
rescale_no_sub(v, original_range_, target_range_) ==
    LET o == unwrap_value_range(original_range_)
        t == unwrap_value_range(target_range_)
        normalized == FDiv(Cast(v), FSub(o.max_value, o.min_value))
        scale_factor == FSub(t.max_value, t.min_value)
    IN  FAdd(FMul(normalized, scale_factor), t.min_value)

\* the rescale without the final + target_min
rescale_no_offset(v, original_range_, target_range_) ==
    LET o == unwrap_value_range(original_range_)
        t == unwrap_value_range(target_range_)
        normalized == FDiv(FSub(Cast(v), o.min_value),
                           FSub(o.max_value, o.min_value))
        scale_factor == FSub(t.max_value, t.min_value)
    IN  FMul(normalized, scale_factor)

\* one element of transform_value_range's result
rescale(v, original_range_, target_range_) ==
    LET o == unwrap_value_range(original_range_)
        t == unwrap_value_range(target_range_)
        normalized == FDiv(FSub(Cast(v), o.min_value),
                           FSub(o.max_value, o.min_value))
        scale_factor == FSub(t.max_value, t.min_value)
    IN  FAdd(FMul(normalized, scale_factor), t.min_value)

\* the arithmetic is elementwise: one result per input value
transform_value_range(images_, original_range_, target_range_) ==
    [i \in 1..Len(images_) |-> rescale(images_[i], original_range_, target_range_)]

(***************************************************************************)
(* transform: values                                                       *)
(***************************************************************************)
\* a tensor value: its shape and its elements in row-major order
Value(shape, flat) == [shape |-> shape, flat |-> flat]

NoValue == Value(<<>>, <<>>)

\* a TensorShape: -1 stands for a dimension that is None
KnownShape(dims) == [rank_known |-> TRUE, dims |-> dims]

UnknownShape == [rank_known |-> FALSE, dims |-> <<>>]

\* Python's None
None == [kind |-> "None", producer |-> "", value |-> NoValue, static |-> UnknownShape]

\* a (nested) Python list of ints
List(value) ==
    [kind |-> "list", producer |-> "", value |-> value, static |-> UnknownShape]

\* a numpy array
NdArray(value) ==
    [kind |-> "ndarray", producer |-> "", value |-> value, static |-> UnknownShape]

\* a tf.Tensor: the op that produces it, the value it has when it is
\* executed and its static shape
Tensor(producer, value, static) ==
    [kind |-> "Tensor", producer |-> producer, value |-> value, static |-> static]

NoError == [type |-> "None", message |-> <<>>]

\* TensorShape.is_compatible_with demanding fully known, equal shapes
is_equal_to(static, dims) == static.rank_known /\ static.dims = dims

\* TensorShape.is_compatible_with: an unknown rank is compatible with every
\* shape, otherwise the ranks agree and each pair of dimensions agrees or
\* has a None
is_compatible_with(static, dims) ==
    \/ ~static.rank_known
    \/ /\ Len(static.dims) = Len(dims)
       /\ \A i \in 1..Len(dims) :
            static.dims[i] = -1 \/ dims[i] = -1 \/ static.dims[i] = dims[i]

\* tf.shape(images)[0:2], a slip for [1:3]
shape_slice_0_2(batch_) ==
    Tensor("Shape", Value(<<2>>, <<batch_.shape[1], batch_.shape[2]>>),
           KnownShape(<<2>>))

\* tf.shape(images)[1:3]: the tensor that holds (height, width) once executed
shape_slice(batch_) ==
    Tensor("Shape", Value(<<2>>, <<batch_.shape[2], batch_.shape[3]>>),
           KnownShape(<<2>>))

\* tf.get_static_value(tf.shape(images)[1:3]): the height and width when the
\* static shape of images holds both, None otherwise
get_static_value(batch_) ==
    IF batch_.static[2] # -1 /\ batch_.static[3] # -1
    THEN NdArray(Value(<<2>>, <<batch_.static[2], batch_.static[3]>>))
    ELSE None

\* tf.convert_to_tensor(x, tf.int32): a tensor is returned as it is, a list
\* or an array becomes a constant of the list's shape
convert_to_tensor(x) ==
    IF x.kind = "Tensor" THEN x
    ELSE Tensor("Const", x.value, KnownShape(x.value.shape))

\* the letters of the arguments, lower case and upper case
LowerCase == <<"a", "b", "c", "e", "f", "i", "l", "n", "p", "r", "s", "t", "w">>

UpperCase == <<"A", "B", "C", "E", "F", "I", "L", "N", "P", "R", "S", "T", "W">>

\* str.upper with no effect
upper_noop(s) == s

\* str.upper: each lower-case letter replaced by its upper-case letter
upper(s) ==
    [i \in 1..Len(s) |->
        IF \E k \in 1..Len(LowerCase) : LowerCase[k] = s[i]
        THEN UpperCase[CHOOSE k \in 1..Len(LowerCase) : LowerCase[k] = s[i]]
        ELSE s[i]]

\* the shape of the result of ImageProjectiveTransformV3:
\* (batch, output height, output width, channels)
op_result(batch_, out) ==
    [dtype |-> batch_.dtype,
     shape |-> <<batch_.shape[1], out.value.flat[1], out.value.flat[2],
                 batch_.shape[4]>>]

\* whether the tensor holds a vector of 2 elements when executed
IsVec2(t) == t.value.shape = <<2>>

(***************************************************************************)
(* Inputs                                                                  *)
(***************************************************************************)
PyInt(k) == [py |-> "int", n |-> k, d |-> 1]

PyFloat(n, d) == [py |-> "float", n |-> n, d |-> d]

\* pixel values: integers and floats, inside and outside the ranges
ImageVals == {PyInt(0), PyInt(1), PyInt(255), PyFloat(1, 2), PyFloat(-3, 2)}

\* bounds of value ranges
RangeVals == {PyInt(0), PyInt(1), PyInt(255), PyFloat(-1, 1)}

SeqsUpTo(S, n) == UNION {[1..k -> S] : k \in 0..n}

Dims == 1..MaxDim

\* runtime shapes of a batch of two RGB images (NHWC)
BatchShapes == {<<2, h, w, 3>> : h \in Dims, w \in Dims}

\* the static shapes a batch of runtime shape s can have when the graph is
\* traced: all of it known, the batch size unknown, height and width unknown
StaticShapes(s) == {s, <<-1, s[2], s[3], s[4]>>, <<s[1], -1, -1, s[4]>>}

\* values passed as output_shape: vectors of 2, 1 and 3 elements, a matrix
OutputValues ==
    {Value(<<2>>, <<h, w>>) : h \in Dims, w \in Dims}
    \cup {Value(<<1>>, <<2>>), Value(<<3>>, <<2, 2, 2>>), Value(<<1, 2>>, <<2, 2>>)}

\* the static shapes a tensor of value v can have: its shape, an unknown
\* rank, and, when it is traced, its rank with every dimension None
TensorStatics(v, eager_) ==
    IF eager_ THEN {KnownShape(v.shape)}
    ELSE {KnownShape(v.shape), UnknownShape,
          KnownShape([i \in 1..Len(v.shape) |-> -1])}

\* the ways output_shape is passed: omitted, a list, a tensor
OutputShapeArgs(eager_) ==
    {None}
    \cup {List(v) : v \in OutputValues}
    \cup UNION {{Tensor("Placeholder", v, st) : st \in TensorStatics(v, eager_)} :
                 v \in OutputValues}

Str_reflect == <<"r", "e", "f", "l", "e", "c", "t">>

Str_REFLECT == <<"R", "E", "F", "L", "E", "C", "T">>

Str_Reflect == <<"R", "e", "f", "l", "e", "c", "t">>

Str_wrap == <<"w", "r", "a", "p">>

Str_WRAP == <<"W", "R", "A", "P">>

Str_bilinear == <<"b", "i", "l", "i", "n", "e", "a", "r">>

Str_BILINEAR == <<"B", "I", "L", "I", "N", "E", "A", "R">>

Str_Nearest == <<"N", "e", "a", "r", "e", "s", "t">>

Str_nearest == <<"n", "e", "a", "r", "e", "s", "t">>

Str_NEAREST == <<"N", "E", "A", "R", "E", "S", "T">>

\* spellings of the recognised modes
Spellings ==
    {Str_reflect, Str_REFLECT, Str_Reflect, Str_wrap, Str_WRAP, Str_bilinear,
     Str_BILINEAR, Str_Nearest, Str_nearest, Str_NEAREST}

FillModes == {Str_reflect, Str_Reflect, Str_WRAP}

Interpolations == {Str_bilinear, Str_Nearest}

\* the identity transform [a0, a1, a2, b0, b1, b2, c0, c1]
IdentityTransform == <<1, 0, 0, 0, 1, 0, 0, 0>>

(***************************************************************************)
(* Initial states: one call of one of the two functions                    *)
(***************************************************************************)
IdleTransform ==
    /\ eager = TRUE
    /\ batch = [dtype |-> "float32", shape |-> <<1, 1, 1, 3>>, static |-> <<1, 1, 1, 3>>]
    /\ transforms = IdentityTransform
    /\ fill_mode = Str_reflect
    /\ interpolation = Str_bilinear
    /\ fill_value = PyFloat(0, 1)
    /\ output_shape_arg = None
    /\ output_shape = None
    /\ op_calls = <<>>
    /\ ret = None
    /\ error = NoError
    /\ log = <<>>

IdleRange ==
    /\ images = <<>>
    /\ original_range = <<PyInt(0), PyInt(1)>>
    /\ target_range = <<PyInt(0), PyInt(1)>>
    /\ result = <<>>
    /\ restored = <<>>

InitRange ==
    /\ call = "transform_value_range"
    /\ pc = "start"
    /\ images \in SeqsUpTo(ImageVals, MaxLen)
    /\ original_range \in RangeVals \X RangeVals
    /\ target_range \in RangeVals \X RangeVals
    /\ result = <<>>
    /\ restored = <<>>
    /\ IdleTransform

InitTransform ==
    /\ call = "transform"
    /\ pc = "start"
    /\ eager \in BOOLEAN
    /\ \E s \in BatchShapes, dt \in {"float32", "uint8"} :
         \E st \in (IF eager THEN {s} ELSE StaticShapes(s)) :
            batch = [dtype |-> dt, shape |-> s, static |-> st]
    /\ transforms = IdentityTransform
    /\ fill_mode \in FillModes
    /\ interpolation \in Interpolations
    /\ fill_value \in {PyFloat(0, 1), PyInt(1)}
    /\ output_shape_arg \in OutputShapeArgs(eager)
    /\ output_shape = output_shape_arg
    /\ op_calls = <<>>
    /\ ret = None
    /\ error = NoError
    /\ log = <<>>
    /\ IdleRange

Init == InitRange \/ InitTransform

(***************************************************************************)
(* transform_value_range: the call, and the call back with the ranges      *)
(* swapped                                                                 *)
(***************************************************************************)
CallTransformValueRange ==
    /\ call = "transform_value_range"
    /\ pc = "start"
    /\ result' = transform_value_range(images, original_range, target_range)
    /\ pc' = "done"
    /\ UNCHANGED <<call, images, original_range, target_range, restored>>
    /\ UNCHANGED transform_vars

CallBack ==
    /\ call = "transform_value_range"
    /\ pc = "done"
    /\ restored' = transform_value_range(result, target_range, original_range)
    /\ pc' = "back"
    /\ UNCHANGED <<call, images, original_range, target_range, result>>
    /\ UNCHANGED transform_vars

(***************************************************************************)
(* transform, statement by statement                                       *)
(***************************************************************************)
\* the default of output_shape taken without asking for the execution mode
resolve_any_mode(output_shape_, batch_, eager_) ==
    IF output_shape_.kind = "None"
    THEN IF get_static_value(batch_).kind # "None"
         THEN get_static_value(batch_)
         ELSE shape_slice(batch_)
    ELSE output_shape_

\* the default of output_shape read from the first two axes
resolve_axes_0_2(output_shape_, batch_, eager_) ==
    IF output_shape_.kind = "None"
    THEN shape_slice_0_2(batch_)
    ELSE output_shape_

\* the default of output_shape replacing what the caller passed
resolve_always(output_shape_, batch_, eager_) ==
    IF ~eager_ /\ get_static_value(batch_).kind # "None"
    THEN get_static_value(batch_)
    ELSE shape_slice(batch_)

\* output_shape after `if output_shape is None: ...`
resolve(output_shape_, batch_, eager_) ==
    IF output_shape_.kind = "None"
    THEN IF ~eager_ /\ get_static_value(batch_).kind # "None"
         THEN get_static_value(batch_)
         ELSE shape_slice(batch_)
    ELSE output_shape_

ResolveOutputShape ==
    /\ call = "transform"
    /\ pc = "start"
    /\ output_shape' = resolve(output_shape, batch, eager)
    /\ log' = Append(log, "resolve")
    /\ pc' = "resolved"
    /\ UNCHANGED <<call, eager, batch, transforms, fill_mode, interpolation,
                   fill_value, output_shape_arg, op_calls, ret, error>>
    /\ UNCHANGED tvr_vars

ConvertOutputShape ==
    /\ call = "transform"
    /\ pc = "resolved"
    /\ output_shape' = convert_to_tensor(output_shape)
    /\ log' = Append(log, "convert_output_shape")
    /\ pc' = "converted"
    /\ UNCHANGED <<call, eager, batch, transforms, fill_mode, interpolation,
                   fill_value, output_shape_arg, op_calls, ret, error>>
    /\ UNCHANGED tvr_vars

\* the check of output_shape's static shape, demanding a fully known [2]
shape_ok_exact(t) == is_equal_to(t.static, <<2>>)

\* `output_shape.get_shape().is_compatible_with([2])`
shape_ok(t) == is_compatible_with(t.static, <<2>>)

\* the check of output_shape placed after the delegated call
CheckOutputShapeLate ==
    /\ call = "transform"
    /\ pc = "converted"
    /\ log' = Append(log, "check_output_shape")
    /\ IF ~shape_ok(output_shape)
       THEN /\ error' = [type |-> "ValueError",
                         message |-> <<"output_shape must be a 1-D Tensor of 2 elements: new_height, new_width, instead got ",
                                       output_shape>>]
            /\ op_calls' = Append(op_calls, [images |-> batch, output_shape |-> output_shape])
            /\ pc' = "raised"
       ELSE /\ error' = error
            /\ op_calls' = op_calls
            /\ pc' = "checked"
    /\ UNCHANGED <<call, eager, batch, transforms, fill_mode, interpolation,
                   fill_value, output_shape_arg, output_shape, ret>>
    /\ UNCHANGED tvr_vars

CheckOutputShape ==
    /\ call = "transform"
    /\ pc = "converted"
    /\ log' = Append(log, "check_output_shape")
    /\ IF ~shape_ok(output_shape)
       THEN /\ error' = [type |-> "ValueError",
                         message |-> <<"output_shape must be a 1-D Tensor of 2 elements: new_height, new_width, instead got ",
                                       output_shape>>]
            /\ pc' = "raised"
       ELSE /\ error' = error
            /\ pc' = "checked"
    /\ UNCHANGED <<call, eager, batch, transforms, fill_mode, interpolation,
                   fill_value, output_shape_arg, output_shape, op_calls, ret>>
    /\ UNCHANGED tvr_vars

\* tf.convert_to_tensor(fill_value, tf.float32)
fill_tensor(v) == Tensor("Const", Value(<<>>, <<Cast(v)>>), KnownShape(<<>>))

ConvertFillValue ==
    /\ call = "transform"
    /\ pc = "checked"
    /\ fill_value' = fill_tensor(fill_value)
    /\ log' = Append(log, "convert_fill_value")
    /\ pc' = "filled"
    /\ UNCHANGED <<call, eager, batch, transforms, fill_mode, interpolation,
                   output_shape_arg, output_shape, op_calls, ret, error>>
    /\ UNCHANGED tvr_vars

\* the arguments of the delegated call with the strings passed as they came
op_args_as_given(batch_, output_shape_, fill_value_, transforms_, fill_mode_, interpolation_) ==
    [images |-> batch_, output_shape |-> output_shape_, fill_value |-> fill_value_,
     transforms |-> transforms_, fill_mode |-> upper_noop(fill_mode_),
     interpolation |-> upper_noop(interpolation_)]

\* the arguments of tf.raw_ops.ImageProjectiveTransformV3
op_args(batch_, output_shape_, fill_value_, transforms_, fill_mode_, interpolation_) ==
    [images |-> batch_, output_shape |-> output_shape_, fill_value |-> fill_value_,
     transforms |-> transforms_, fill_mode |-> upper(fill_mode_),
     interpolation |-> upper(interpolation_)]

\* the delegated call: the operator rejects an output_shape that does not
\* hold 2 elements when it runs
Dispatch ==
    /\ call = "transform"
    /\ pc = "filled"
    /\ op_calls' = Append(op_calls, op_args(batch, output_shape, fill_value,
                                            transforms, fill_mode, interpolation))
    /\ log' = Append(log, "ImageProjectiveTransformV3")
    /\ IF IsVec2(output_shape)
       THEN /\ ret' = op_result(batch, output_shape)
            /\ error' = error
            /\ pc' = "done"
       ELSE /\ ret' = ret
            /\ error' = [type |-> "InvalidArgumentError", message |-> <<>>]
            /\ pc' = "op_error"
    /\ UNCHANGED <<call, eager, batch, transforms, fill_mode, interpolation,
                   fill_value, output_shape_arg, output_shape>>
    /\ UNCHANGED tvr_vars

Next ==
    \/ CallTransformValueRange
    \/ CallBack
    \/ ResolveOutputShape
    \/ ConvertOutputShape
    \/ CheckOutputShape
    \/ ConvertFillValue
    \/ Dispatch

Spec == Init /\ [][Next]_vars

(***************************************************************************)
(* Properties of transform_value_range                                     *)
(***************************************************************************)
Returned == call = "transform_value_range" /\ pc \in {"done", "back"}

\* the two bounds of a range differ once cast
NonDegenerate(value_range) == Cast(value_range[1]) # Cast(value_range[2])

\* twice the value of a number whose denominator is 1 or 2, as an integer
Twice(x) == (2 * x.n) \div x.d

\* r = ((v - omin) / (omax - omin)) * (tmax - tmin) + tmin, cleared of
\* fractions: 2 r (omax - omin) = (v - omin)(tmax - tmin) + tmin (omax - omin)
\* with v and the four bounds doubled
IsRescaled(r, v, orig, targ) ==
    LET V == Twice(v)
        Om == Twice(orig[1])
        OM == Twice(orig[2])
        Tm == Twice(targ[1])
        TM == Twice(targ[2])
    IN  /\ IsFinite(r)
        /\ 2 * r.n * (OM - Om) = r.d * ((V - Om) * (TM - Tm) + Tm * (OM - Om))

\* C1: the call with ranges (A, B) followed by the call with ranges (B, A)
\* returns every input value unchanged, when neither range is degenerate
\* (exactly, in exact arithmetic).
C1_RoundTrip ==
    (call = "transform_value_range" /\ pc = "back"
        /\ NonDegenerate(original_range) /\ NonDegenerate(target_range))
    => /\ Len(restored) = Len(images)
       /\ \A i \in 1..Len(images) : restored[i] = Cast(images[i])

C1_Witness ==
    /\ call = "transform_value_range" /\ pc = "back"
    /\ original_range = <<PyFloat(-1, 1), PyInt(1)>>
    /\ target_range = <<PyInt(1), PyInt(255)>>
    /\ images = <<PyFloat(1, 2), PyInt(255)>>
    /\ result = <<Float(383, 2), Float(32513, 1)>>
    /\ restored = <<Float(1, 2), Float(255, 1)>>

\* C2: every returned value is ((v - orig_min) / (orig_max - orig_min)) *
\* (target_max - target_min) + target_min of the input value at its place, so
\* orig_min goes to target_min, orig_max to target_max and the midpoint to
\* the midpoint ([0,1] to [0,255]: 0 -> 0, 1 -> 255, 0.5 -> 127.5), and the
\* result has as many values as the input.
C2_Formula ==
    Returned =>
        /\ Len(result) = Len(images)
        /\ NonDegenerate(original_range) =>
            \A i \in 1..Len(images) :
                LET v == Cast(images[i])
                    o == unwrap_value_range(original_range)
                    t == unwrap_value_range(target_range)
                IN  /\ IsRescaled(result[i], images[i], original_range, target_range)
                    /\ v = o.min_value => result[i] = t.min_value
                    /\ v = o.max_value => result[i] = t.max_value
                    /\ (2 * Twice(v) = Twice(o.min_value) + Twice(o.max_value))
                        => 2 * Twice(result[i]) = Twice(t.min_value) + Twice(t.max_value)
        /\ (original_range = <<PyInt(0), PyInt(1)>>
                /\ target_range = <<PyInt(0), PyInt(255)>>) =>
            \A i \in 1..Len(images) :
                /\ images[i] = PyInt(0) => result[i] = [n |-> 0, d |-> 1]
                /\ images[i] = PyInt(1) => result[i] = [n |-> 255, d |-> 1]
                /\ images[i] = PyFloat(1, 2) => result[i] = [n |-> 255, d |-> 2]

C2_Witness ==
    /\ call = "transform_value_range" /\ pc = "done"
    /\ original_range = <<PyInt(0), PyInt(1)>>
    /\ target_range = <<PyInt(0), PyInt(255)>>
    /\ images = <<PyFloat(1, 2), PyInt(1)>>
    /\ result = <<[n |-> 255, d |-> 2], [n |-> 255, d |-> 1]>>

\* C7: with original_range of equal bounds the call returns, no error is
\* raised, and every returned value is an infinity or NaN.
C7_DegenerateNonFinite ==
    (Returned /\ ~NonDegenerate(original_range)) =>
        /\ error = NoError
        /\ Len(result) = Len(images)
        /\ \A i \in 1..Len(result) : ~IsFinite(result[i])

C7_Witness ==
    /\ call = "transform_value_range" /\ pc = "done"
    /\ original_range = <<PyInt(1), PyInt(1)>>
    /\ target_range = <<PyInt(0), PyInt(255)>>
    /\ images = <<PyInt(1), PyInt(255)>>
    /\ IsNaN(result[1])
    /\ result[2] = [n |-> 1, d |-> 0]

\* C8: with original_range equal to target_range, not degenerate, every
\* returned value is the input value at its place.
C8_SameRangeIdentity ==
    (Returned /\ NonDegenerate(original_range)
        /\ unwrap_value_range(original_range) = unwrap_value_range(target_range))
    => /\ Len(result) = Len(images)
       /\ \A i \in 1..Len(images) : result[i] = Cast(images[i])

C8_Witness ==
    /\ call = "transform_value_range" /\ pc = "done"
    /\ original_range = <<PyInt(1), PyInt(255)>>
    /\ target_range = <<PyInt(1), PyInt(255)>>
    /\ images = <<PyFloat(-3, 2), PyInt(0)>>
    /\ result = <<Float(-3, 2), Float(0, 1)>>

(***************************************************************************)
(* Properties of transform                                                 *)
(***************************************************************************)
\* the statement after the check of output_shape has been reached
Checked ==
    call = "transform" /\ pc \in {"raised", "checked", "filled", "done", "op_error"}

\* the delegated operator has been invoked
Dispatched == call = "transform" /\ pc \in {"done", "op_error"}

\* no tensor of this static shape can be a vector of 2 elements
StaticallyNotVec2(static) ==
    /\ static.rank_known
    /\ \/ Len(static.dims) # 1
       \/ static.dims[1] \notin {-1, 2}

HeightWidth == <<batch.shape[2], batch.shape[3]>>

\* C3 as stated: whenever the converted output_shape is not a vector of 2
\* elements, however it was passed, transform raises a ValueError whose
\* message includes output_shape.
C3_RaisesWheneverNotVec2 ==
    (Checked /\ ~IsVec2(output_shape)) =>
        /\ pc = "raised"
        /\ error.type = "ValueError"
        /\ error.message[2] = output_shape

\* C3 amended: transform raises the ValueError, with output_shape in its
\* message, exactly when the static shape of the converted output_shape
\* rules out a vector of 2 elements; for a list, and for a tensor whose
\* static shape is fully known, that is whenever it is not a vector of 2
\* elements, and a tensor of unknown rank or unknown length passes the check
\* whatever it holds.
C3_RaisesWhenStaticallyNotVec2 ==
    Checked =>
        /\ pc = "raised" <=> StaticallyNotVec2(output_shape.static)
        /\ pc = "raised" =>
            /\ error.type = "ValueError"
            /\ error.message[2] = output_shape
            /\ ~IsVec2(output_shape)
            /\ op_calls = <<>>
        /\ (output_shape_arg.kind = "list"
                \/ output_shape.static = KnownShape(output_shape.value.shape))
            => (pc = "raised" <=> ~IsVec2(output_shape))
        /\ (~output_shape.static.rank_known
                \/ output_shape.static = KnownShape(<<-1>>))
            => pc # "raised"

C3_Witness ==
    /\ call = "transform" /\ pc = "raised"
    /\ ~eager
    /\ output_shape_arg = Tensor("Placeholder", Value(<<1, 2>>, <<2, 2>>),
                                 KnownShape(<<-1, -1>>))
    /\ error.type = "ValueError"
    /\ error.message[2] = output_shape_arg

SameLetters(a, b) ==
    /\ Len(a) = Len(b)
    /\ \A i \in 1..Len(a) :
        \E k \in 1..Len(LowerCase) :
            /\ a[i] \in {LowerCase[k], UpperCase[k]}
            /\ b[i] \in {LowerCase[k], UpperCase[k]}

\* C5: the delegated operator receives upper-case strings, and a call whose
\* fill_mode and interpolation differ from this call's in letter case alone
\* hands the delegated operator the same arguments.
C5_CaseInsensitive ==
    Dispatched =>
        /\ \A i \in 1..Len(fill_mode) :
            \E k \in 1..Len(UpperCase) : op_calls[1].fill_mode[i] = UpperCase[k]
        /\ \A i \in 1..Len(interpolation) :
            \E k \in 1..Len(UpperCase) : op_calls[1].interpolation[i] = UpperCase[k]
        /\ \A fm \in {x \in Spellings : SameLetters(x, fill_mode)} :
            \A ip \in {x \in Spellings : SameLetters(x, interpolation)} :
                op_args(batch, output_shape, fill_value, transforms, fm, ip)
                    = op_calls[1]

C5_Witness ==
    /\ call = "transform" /\ pc = "done"
    /\ fill_mode = Str_Reflect
    /\ interpolation = Str_Nearest
    /\ op_calls[1].fill_mode = Str_REFLECT
    /\ op_calls[1].interpolation = Str_NEAREST

C9_Ordering ==
    call = "transform" =>
        /\ pc = "raised" =>
            /\ op_calls = <<>>
            /\ fill_value \in {PyFloat(0, 1), PyInt(1)}
            /\ log = <<"resolve", "convert_output_shape", "check_output_shape">>
        /\ Dispatched =>
            /\ Len(op_calls) = 1
            /\ fill_value.kind = "Tensor"
            /\ op_calls[1].fill_value = fill_value
            /\ log = <<"resolve", "convert_output_shape", "check_output_shape",
                       "convert_fill_value", "ImageProjectiveTransformV3">>
        /\ ~Dispatched => op_calls = <<>>

C9_Witness ==
    /\ call = "transform" /\ pc = "raised"
    /\ output_shape_arg = List(Value(<<3>>, <<2, 2, 2>>))
    /\ op_calls = <<>>
    /\ fill_value = PyInt(1)

\* C10: with output_shape omitted the delegated operator receives a constant
\* (height, width) when execution is deferred and the static shape holds the
\* height and the width, and the tensor read from the runtime shape when
\* execution is eager or the static shape lacks them; either is the input's
\* (height, width); an output_shape that was passed is handed over as it is.
C10_DefaultOutputShape ==
    Dispatched =>
        LET handed == op_calls[1].output_shape
            static_known == batch.static[2] # -1 /\ batch.static[3] # -1
        IN  /\ (output_shape_arg.kind = "None" /\ ~eager /\ static_known)
                => handed = Tensor("Const", Value(<<2>>, HeightWidth), KnownShape(<<2>>))
            /\ (output_shape_arg.kind = "None" /\ (eager \/ ~static_known))
                => handed = Tensor("Shape", Value(<<2>>, HeightWidth), KnownShape(<<2>>))
            /\ output_shape_arg.kind = "None" => handed.value.flat = HeightWidth
            /\ output_shape_arg.kind = "Tensor" => handed = output_shape_arg
            /\ output_shape_arg.kind = "list"
                => handed = Tensor("Const", output_shape_arg.value,
                                   KnownShape(output_shape_arg.value.shape))

C10_Witness ==
    /\ call = "transform" /\ pc = "done"
    /\ ~eager
    /\ output_shape_arg = None
    /\ batch.shape = <<2, 2, 1, 3>>
    /\ batch.static = <<-1, 2, 1, 3>>
    /\ op_calls[1].output_shape.producer = "Const"
    /\ op_calls[1].output_shape.value.flat = <<2, 1>>

====
